---- MODULE Spec2Model ----
(***************************************************************************)
(* A model of JASSv2's impact-ordered index pipeline:                      *)
(*   - compress_integer_elias_gamma_simd_vb (compute_selector, encode,     *)
(*     decode),                                                            *)
(*   - index_postings (push_back, iterator, text_render),                  *)
(*   - quantize (pass A, pass B, get_bounds),                              *)
(*   - pointer_box, the dumper jassv1_to_human and                         *)
(*     evaluate_cheapest_precision::compute.                               *)
(* Each component has its own specification (SpecCodec, SpecCodecLive,     *)
(* SpecSelector, SpecPostings, SpecSaturation, SpecQuantize,               *)
(* SpecRankerDomain, SpecBox, SpecDumper, SpecCompute); the variables of   *)
(* the components a specification does not exercise stay at their idle     *)
(* values.                                                                 *)
(*                                                                         *)
(* A uint32_t (and the decoder's uint64_t selector) is modelled as the set *)
(* of the positions of its set bits: 0 is {}, 1 is {0}, 0xFFFFFFFF is      *)
(* 0..31.  OR is union, AND is intersection, shifts move the positions.    *)
(***************************************************************************)
EXTENDS Integers, Sequences, FiniteSets, TLC

VARIABLES
    \* ---- compress_integer_elias_gamma_simd_vb ----
    pc,                     \* where the codec's driver is
    array,                  \* the caller's input integers (1-based sequence of words)
    n,                      \* the number of integers handed to encode
    encoded_buffer_length,  \* capacity of the output buffer, in bytes
    memory,                 \* the output buffer and the words after it, by word index
    written_to,             \* byte offset one past the highest byte encode has written
    consumed,               \* how many input integers `array` has advanced over
    elements,               \* encode's running `elements`
    destination,            \* encode's `destination`, as a word index
    selector_at,            \* encode's `selector` pointer, as a word index
    remaining,              \* encode's `remaining`
    cumulative_shift,       \* encode's `cumulative_shift`
    slice,                  \* encode's `slice`
    encodings,              \* encode's `encodings[33]`
    result,                 \* encode's return value
    source,                 \* decode's `source`, as a byte offset
    source_length,          \* decode's `source_length`
    selector,               \* decode's `selector` (64 bits)
    payload,                \* decode's payload1 and payload2 (16 lanes)
    decoded,                \* the integers decode has stored, in order
    widths,                 \* the widths decode has extracted, in order
    \* ---- index_postings ----
    phase,                  \* "building" until text_render has run, then "rendered"
    highest_document,       \* index_postings::highest_document
    highest_position,       \* index_postings::highest_position
    document_ids,           \* index_postings::document_ids
    term_frequencies,       \* index_postings::term_frequencies
    positions,              \* index_postings::positions, after its leading run
    leading_run,            \* positions starts with the run 1, 2, .., leading_run,
                            \* pushed for document 1, which is not spelt out
    pushed,                 \* the <<document_id, position>> of every push_back
                            \* after those of the leading run
    stream,                 \* the characters text_render has written
    \* ---- quantize ----
    pass,                   \* which pass over the index is running: "A", "B", "done"
    next_term,              \* the term whose callback the index makes next
    next_key,               \* the document whose primary-key callback comes next
    rsv,                    \* the ranker: rsv[t][i] is its score of posting i of term t
    index_document_ids,     \* the index: the document_ids array of each term
    index_term_frequencies, \* the index: the term_frequencies array of each term
    smallest_rsv,           \* quantize::smallest_rsv
    largest_rsv,            \* quantize::largest_rsv
    bounds,                 \* what get_bounds last stored in (smallest, largest)
    written,                \* the postings lists the writer has been called with
    written_keys,           \* the primary keys the writer has been called with
    ranker_calls,           \* the calls the last postings callback made to the
                            \* ranker, in order
    \* ---- pointer_box ----
    int_array,              \* the array the boxed pointers point into
    element,                \* the left operand's `element`, as an index of int_array
    to_element,             \* the right operand's `element` (to.element)
    outcome,                \* the results of the comparisons made, by operation
    \* ---- the dumper (jassv1_to_human) ----
    dumper_pc,              \* where main is: "start", "read", "walked", then
                            \* "returned", "exited" or "fatal"
    command_line,           \* what commandline::parse makes of argv
    index_file,             \* the index on disk
    index_read,             \* whether read_index has been called
    d_ness,                 \* main's d_ness, once codex has set it
    walked_with,            \* the DECODER walk_index was instantiated with
    decode_calls,           \* the calls of decode_and_process walk_index has made,
                            \* in order
    standard_out,           \* what has been written to std::cout, in order
    exit_status,            \* the status the process ended with
    \* ---- evaluate_cheapest_precision::compute ----
    compute_pc,             \* where compute is: "collect", "loop", "returned"
    assessments,            \* the query's assessments: the score of each judged document
    results_list,           \* compute's results_list, documents by their rank in the
                            \* order of judgement::operator<
    depth,                  \* compute's depth
    query_prices,           \* compute's query_prices, as document ids
    query_depth,            \* compute's query_depth
    which,                  \* compute's which
    found_and_relevant,     \* compute's found_and_relevant
    precision               \* the value returned, as <<numerator, denominator>>

codecVars == <<pc, array, n, encoded_buffer_length, memory, written_to, consumed,
               elements, destination, selector_at, remaining, cumulative_shift,
               slice, encodings, result, source, source_length, selector,
               payload, decoded, widths>>

postingsVars == <<phase, highest_document, highest_position, document_ids,
                  term_frequencies, positions, leading_run, pushed, stream>>

quantizeVars == <<pass, next_term, next_key, rsv, index_document_ids,
                  index_term_frequencies, smallest_rsv, largest_rsv, bounds, written,
                  written_keys, ranker_calls>>

boxVars == <<int_array, element, to_element, outcome>>

dumperVars == <<dumper_pc, command_line, index_file, index_read, d_ness, walked_with,
                decode_calls,
                standard_out, exit_status>>

\* the variables of the small components
precisionVars == <<compute_pc, assessments, results_list, depth, query_prices,
                   query_depth, which, found_and_relevant, precision>>

toolVars == <<boxVars, dumperVars, precisionVars>>

vars == <<codecVars, postingsVars, quantizeVars, toolVars>>

\* what the actions of one component leave alone
notCodecVars == <<postingsVars, quantizeVars, toolVars>>

notPostingsVars == <<codecVars, quantizeVars, toolVars>>

notQuantizeVars == <<codecVars, postingsVars, toolVars>>

notBoxVars == <<codecVars, postingsVars, quantizeVars, dumperVars, precisionVars>>

notDumperVars == <<codecVars, postingsVars, quantizeVars, boxVars, precisionVars>>

notPrecisionVars == <<codecVars, postingsVars, quantizeVars, boxVars, dumperVars>>

----------------------------------------------------------------------------
(* Bounds of the model *)

\* the number of freely chosen groups of 16 integers in an input
MaxGroups == 2

\* the longest width sequence handed to compute_selector on its own
MaxWidths == 3

\* the number of push_back calls made on one postings list
MaxPushes == 4

\* the largest document id pushed
MaxDocument == 2

\* the number of different positions pushed
MaxPosition == 4

\* the length of the longest array boxed pointers point into
MaxElements == 3

\* the number of terms, and of primary keys, of the largest index dumped
MaxDumped == 2

\* the number of segments (impacts) of a term of the largest index dumped
MaxSegments == 2

\* the number of documents that are judged or returned for the query
MaxJudged == 3

\* the length of the longest results list
MaxResults == 3

----------------------------------------------------------------------------
(* Program constants *)

WORD_WIDTH == 32

WORDS == 512 \div WORD_WIDTH

\* one frame: the selector word and WORDS payload words, in bytes
FRAME_BYTES == (WORDS + 1) * 4

----------------------------------------------------------------------------
(* Bit operations on words *)

Max(S) == CHOOSE x \in S : \A y \in S : y <= x

Min(S) == CHOOSE x \in S : \A y \in S : x <= y

\* v << by for a 32-bit v, by < 32
ShiftLeft32(v, by) == {b + by : b \in v} \cap (0 .. WORD_WIDTH - 1)

\* v >> by (logical)
ShiftRight(v, by) == {b - by : b \in {c \in v : c >= by}}

\* `value <<= number_of_0s` on a uint32_t.  A count of 32 is undefined
\* behaviour; builds either mask the count to 5 bits ("mask") or shift every
\* bit out ("zero").
ShiftLeftUB(v, by, ub) ==
    IF by < WORD_WIDTH THEN ShiftLeft32(v, by)
    ELSE IF ub = "mask" THEN ShiftLeft32(v, by % WORD_WIDTH)
    ELSE {}

ShiftOutcomes == {"mask", "zero"}

\* maths::ceiling_log2 as encode uses it: the slice width of a group whose
\* values OR to x; 1 for x <= 1.
ceiling_log2(x) ==
    IF x \subseteq {0} THEN 1
    ELSE IF Cardinality(x) = 1 THEN Max(x)
    ELSE Max(x) + 1

\* maths::find_first_set_bit: 1-based index of the lowest set bit, 0 for 0
find_first_set_bit(x) == IF x = {} THEN 0 ELSE Min(x) + 1

\* one lane of mask_set[width]
mask_set(width) == 0 .. (width - 1)

----------------------------------------------------------------------------
(* compute_selector *)

\* the first loop: the index of the first zero entry, at most 32
SelectorLength(e) ==
    IF \E i \in 0 .. 31 : e[i] = 0
    THEN Min({i \in 0 .. 31 : e[i] = 0})
    ELSE 32

RECURSIVE SelectorFrom(_, _, _, _)
\* the second loop, from index `current` down to 0
SelectorFrom(e, current, value, ub) ==
    IF current < 0 THEN value
    ELSE SelectorFrom(e, current - 1,
                      ShiftLeftUB(value, e[current], ub) \cup {e[current] - 1}, ub)

\* compute_selector with the marker bit one place too high
compute_selector_marker_too_high(e, ub) ==
    ShiftLeft32(SelectorFrom(e, SelectorLength(e) - 1, {}, ub), 1)

compute_selector(e, ub) == SelectorFrom(e, SelectorLength(e) - 1, {}, ub)

----------------------------------------------------------------------------
(* encode *)

\* the integer `array[word]` reads once `array` has advanced over `consumed`
ArrayAt(word) == array[consumed + word + 1]

\* the width of the first integer of the column alone
ColumnWidthOfFirstLane ==
    ceiling_log2({0} \cup (IF 0 < elements THEN ArrayAt(0) ELSE {}))

\* the width encode finds for the next column of WORDS integers
ColumnWidth ==
    ceiling_log2({0} \cup UNION {ArrayAt(word) : word \in {x \in 0 .. WORDS - 1 : x < elements}})

\* what `destination[word] |= value << cumulative_shift` leaves in that word
PackedWordShiftByRemaining(old, word) ==
    old \cup ShiftLeft32(IF word < elements THEN ArrayAt(word) ELSE {}, remaining)

\* the packing with an absent integer taken as 1, as the width loop takes it
PackedWordAbsentAsOne(old, word) ==
    old \cup ShiftLeft32(IF word < elements THEN ArrayAt(word) ELSE {0}, cumulative_shift)

PackedWord(old, word) ==
    old \cup ShiftLeft32(IF word < elements THEN ArrayAt(word) ELSE {}, cumulative_shift)

\* memory after the WORDS payload words at `destination` took the next column
PackColumn ==
    [w \in DOMAIN memory |->
        IF w >= destination /\ w < destination + WORDS
        THEN PackedWord(memory[w], w - destination)
        ELSE memory[w]]

\* the overflow test encode makes before it starts a frame
EncodeOverflowsSelectorOnly == (destination + 1) * 4 > encoded_buffer_length

EncodeOverflows == (destination + WORDS + 1 + 1) * 4 > encoded_buffer_length

\* byte offset one past the last byte touched by a write of `count` words at `at`
WriteExtent(at, count) ==
    IF (at + count) * 4 > written_to THEN (at + count) * 4 ELSE written_to

decodeVars == <<source, source_length, selector, payload, decoded, widths>>

inputVars == <<array, n, encoded_buffer_length>>

\* `if (destination + WORDS + 1 + 1 > end_of_destination) return 0;`
EncodeOverflow ==
    /\ pc = "encode"
    /\ EncodeOverflows
    /\ result' = 0
    /\ pc' = "encode_done"
    /\ UNCHANGED <<inputVars, decodeVars, memory, written_to, consumed, elements,
                   destination, selector_at, remaining, cumulative_shift, slice,
                   encodings>>
    /\ UNCHANGED notCodecVars

\* the head of the while loop: memset, take the selector's address, reset the frame
EncodeFrameStart ==
    /\ pc = "encode"
    /\ ~EncodeOverflows
    /\ memory' = [w \in DOMAIN memory |->
                    IF w >= destination /\ w < destination + WORDS + 1
                    THEN {} ELSE memory[w]]
    /\ written_to' = WriteExtent(destination, WORDS + 1)
    /\ selector_at' = destination
    /\ destination' = destination + 1
    /\ remaining' = WORD_WIDTH
    /\ cumulative_shift' = 0
    /\ slice' = 0
    /\ pc' = "encode_slice"
    /\ UNCHANGED <<inputVars, decodeVars, consumed, elements, encodings, result>>
    /\ UNCHANGED notCodecVars

\* one pass of the for loop that packs a column and goes on to the next
EncodePack ==
    /\ pc = "encode_slice"
    /\ slice < 32
    /\ ColumnWidth <= remaining
    /\ ~(WORDS >= elements)
    /\ encodings' = [encodings EXCEPT ![slice] = ColumnWidth]
    /\ memory' = PackColumn
    /\ written_to' = WriteExtent(destination, WORDS)
    /\ cumulative_shift' = cumulative_shift + ColumnWidth
    /\ remaining' = remaining - ColumnWidth
    /\ consumed' = consumed + WORDS
    /\ elements' = elements - WORDS
    /\ slice' = slice + 1
    /\ UNCHANGED <<inputVars, decodeVars, pc, destination, selector_at, result>>
    /\ UNCHANGED notCodecVars

\* the pass of the for loop that packs the last column, pads it and returns
EncodeFinish ==
    /\ pc = "encode_slice"
    /\ slice < 32
    /\ ColumnWidth <= remaining
    /\ WORDS >= elements
    /\ \E ub \in ShiftOutcomes :
         LET padded == [encodings EXCEPT
                          ![slice] = ColumnWidth + (remaining - ColumnWidth),
                          ![slice + 1] = 0]
         IN  /\ encodings' = padded
             /\ memory' = [PackColumn EXCEPT ![selector_at] = compute_selector(padded, ub)]
    /\ written_to' = WriteExtent(destination, WORDS)
    /\ cumulative_shift' = cumulative_shift + ColumnWidth
    /\ remaining' = remaining - ColumnWidth
    /\ consumed' = consumed + WORDS
    /\ destination' = destination + WORDS
    /\ result' = (destination + WORDS) * 4
    /\ pc' = "encode_done"
    /\ UNCHANGED <<inputVars, decodeVars, elements, selector_at, slice>>
    /\ UNCHANGED notCodecVars

\* the widths of a frame closed without its leftover bits
ClosedEncodingsUnpadded == [encodings EXCEPT ![slice] = 0]

\* `encodings[slice - 1] += remaining; encodings[slice] = 0;`
ClosedEncodings ==
    [encodings EXCEPT ![slice - 1] = encodings[slice - 1] + remaining, ![slice] = 0]

\* the column did not fit (or 32 slices are packed): pad the last width, write
\* the selector and go round the while loop
EncodeCloseFrame ==
    /\ pc = "encode_slice"
    /\ slice = 32 \/ ColumnWidth > remaining
    /\ \E ub \in ShiftOutcomes :
         /\ encodings' = ClosedEncodings
         /\ memory' = [memory EXCEPT ![selector_at] = compute_selector(ClosedEncodings, ub)]
    /\ destination' = destination + WORDS
    /\ pc' = "encode"
    /\ UNCHANGED <<inputVars, decodeVars, written_to, consumed, elements, selector_at,
                   remaining, cumulative_shift, slice, result>>
    /\ UNCHANGED notCodecVars

----------------------------------------------------------------------------
(* decode *)

encodeVars == <<memory, written_to, consumed, elements, destination, selector_at,
                remaining, cumulative_shift, slice, encodings, result>>

\* the caller hands encode's output to decode
DecodeStart ==
    /\ pc = "encode_done"
    /\ result > 0
    /\ source' = 0
    /\ source_length' = result
    /\ selector' = {}
    /\ decoded' = <<>>
    /\ widths' = <<>>
    /\ pc' = "decode"
    /\ UNCHANGED <<inputVars, encodeVars, payload>>
    /\ UNCHANGED notCodecVars

\* the test that lets decode go one frame past the end
EndOfSourcePassed == source > source_length

\* `source >= end_of_source`
EndOfSource == source >= source_length

\* the 16 integers one pass of decode's loop stores
StoredSlice(pay, width) == [l \in 1 .. WORDS |-> pay[l - 1] \cap mask_set(width)]

\* one pass of decode's loop: load a frame when the selector is spent, then
\* extract one slice
DecodeSlice ==
    /\ pc = "decode"
    /\ selector # {} \/ ~EndOfSource
    /\ LET load == selector = {}
           at == source \div 4
           sel == IF load THEN memory[at] ELSE selector
           pay == IF load THEN [l \in 0 .. WORDS - 1 |-> memory[at + 1 + l]] ELSE payload
           width == find_first_set_bit(sel)
       IN  /\ source' = IF load THEN source + FRAME_BYTES ELSE source
           /\ decoded' = decoded \o StoredSlice(pay, width)
           /\ payload' = [l \in 0 .. WORDS - 1 |-> ShiftRight(pay[l], width)]
           /\ selector' = ShiftRight(sel, width)
           /\ widths' = Append(widths, width)
    /\ UNCHANGED <<inputVars, encodeVars, pc, source_length>>
    /\ UNCHANGED notCodecVars

\* `if (source >= end_of_source) break;`
DecodeStop ==
    /\ pc = "decode"
    /\ selector = {}
    /\ EndOfSource
    /\ pc' = "decode_done"
    /\ UNCHANGED <<inputVars, encodeVars, decodeVars>>
    /\ UNCHANGED notCodecVars

----------------------------------------------------------------------------
(* The inputs of the codec *)

\* representative integers: 1, 4, 5, 0x8010, 0xFFFFFFFF (widths 1, 3, 3, 16, 32)
Values == { {0}, {2}, {0, 2}, {4, 15}, 0 .. 31 }

\* how many integers the last group of an input holds
TailSizes == {1, 7, WORDS}

\* lane `lane` of a group built around v: v on the odd lanes, v >> 1 on the even
LaneValue(v, lane) == IF lane % 2 = 1 THEN v ELSE ShiftRight(v, 1)

\* `run` groups of 0/1 values, then one group per entry of vs, the last one
\* holding `tail` integers
InputArray(run, vs, tail) ==
    [i \in 1 .. (WORDS * (run + Len(vs) - 1) + tail) |->
        LET g == (i - 1) \div WORDS
            lane == (i - 1) % WORDS
        IN  IF g < run THEN LaneValue({0}, lane) ELSE LaneValue(vs[g - run + 1], lane)]

ValueChoices == UNION {[1 .. k -> Values] : k \in 1 .. MaxGroups}

\* short inputs: up to MaxGroups groups, each built around a chosen value
ShortInputs == {InputArray(0, vs, tail) : vs \in ValueChoices, tail \in TailSizes}

\* long inputs: a run of 0/1 groups that fills a frame with 1-bit slices, or
\* falls one slice short of it, and one more group
LongInputs ==
    {InputArray(run, <<v>>, tail) :
        run \in {WORD_WIDTH - 1, WORD_WIDTH}, v \in Values, tail \in TailSizes}

\* the empty input and all of the above
Inputs == {<<>>} \cup ShortInputs \cup LongInputs

\* buffer sizes around whole numbers of frames
Capacities == {FRAME_BYTES * k + d : k \in 0 .. MaxGroups + 1, d \in {0, 4}}

\* uninitialised output buffer: every bit set
Garbage == 0 .. (WORD_WIDTH - 1)

EmptyEncodings == [i \in 0 .. 32 |-> 0]

NoPayload == [l \in 0 .. WORDS - 1 |-> {}]

\* encode is called on one of the given inputs
CodecOver(inputs) ==
    /\ pc = "encode"
    /\ array \in inputs
    /\ n = Len(array)
    /\ encoded_buffer_length \in Capacities
    /\ memory = [w \in 0 .. (encoded_buffer_length \div 4) + WORDS + 1 |-> Garbage]
    /\ written_to = 0
    /\ consumed = 0
    /\ elements = n
    /\ destination = 0
    /\ selector_at = 0
    /\ remaining = 0
    /\ cumulative_shift = 0
    /\ slice = 0
    /\ encodings = EmptyEncodings
    /\ result = 0
    /\ source = 0
    /\ source_length = 0
    /\ selector = {}
    /\ payload = NoPayload
    /\ decoded = <<>>
    /\ widths = <<>>

CodecInit == CodecOver(Inputs)

\* the inputs on which the calls are followed to their return: the empty
\* one, one group around each value, two groups that share a frame or do
\* not, and a full frame of 1-bit slices, or one slice short of it, followed
\* by a 3-bit group
LiveInputs ==
    {<<>>}
    \cup {InputArray(0, <<v>>, tail) : v \in Values, tail \in {7, WORDS}}
    \cup {InputArray(0, <<v, w>>, tail) :
              v \in {{0, 2}, 0 .. 31}, w \in {{0, 2}, 0 .. 31}, tail \in {7, WORDS}}
    \cup {InputArray(run, <<{0, 2}>>, 7) : run \in {WORD_WIDTH - 1, WORD_WIDTH}}

CodecLiveInit == CodecOver(LiveInputs)

CodecNext ==
    \/ EncodeOverflow
    \/ EncodeFrameStart
    \/ EncodePack
    \/ EncodeFinish
    \/ EncodeCloseFrame
    \/ DecodeStart
    \/ DecodeSlice
    \/ DecodeStop

----------------------------------------------------------------------------
(* compute_selector on its own, read back by decode's loop *)

RECURSIVE SumOf(_)
SumOf(q) == IF q = <<>> THEN 0 ELSE q[1] + SumOf(Tail(q))

\* every width sequence of at most k widths, each 1..32, that fits one 32-bit word
RECURSIVE WidthSequencesUpTo(_)
WidthSequencesUpTo(k) ==
    IF k = 0 THEN {<<>>}
    ELSE LET shorter == WidthSequencesUpTo(k - 1)
         IN  shorter \cup UNION {{Append(q, w) : w \in 1 .. (WORD_WIDTH - SumOf(q))} : q \in shorter}

WidthSequences == WidthSequencesUpTo(MaxWidths) \ {<<>>}

\* the widths with their terminating zero, as encode's `encodings`
AsEncodings(q) == [i \in 0 .. 32 |-> IF i < Len(q) THEN q[i + 1] ELSE 0]

\* the widths an `encodings` array holds before its first zero
WidthsOf(e) == [i \in 1 .. SelectorLength(e) |-> e[i - 1]]

SelectorInit ==
    /\ pc = "selector"
    /\ \E q \in WidthSequences : encodings = AsEncodings(q)
    /\ array = <<>>
    /\ n = 0
    /\ encoded_buffer_length = FRAME_BYTES
    /\ memory = [w \in 0 .. WORDS |-> {}]
    /\ written_to = 0
    /\ consumed = 0
    /\ elements = 0
    /\ destination = 0
    /\ selector_at = 0
    /\ remaining = 0
    /\ cumulative_shift = 0
    /\ slice = 0
    /\ result = 0
    /\ source = 0
    /\ source_length = 0
    /\ selector = {}
    /\ payload = NoPayload
    /\ decoded = <<>>
    /\ widths = <<>>

\* `*selector = compute_selector(encodings);` into an otherwise empty frame
ComputeSelector ==
    /\ pc = "selector"
    /\ \E ub \in ShiftOutcomes :
         memory' = [memory EXCEPT ![selector_at] = compute_selector(encodings, ub)]
    /\ written_to' = WriteExtent(selector_at, 1)
    /\ result' = FRAME_BYTES
    /\ pc' = "encode_done"
    /\ UNCHANGED <<inputVars, decodeVars, consumed, elements, destination, selector_at,
                   remaining, cumulative_shift, slice, encodings>>
    /\ UNCHANGED notCodecVars

SelectorNext ==
    \/ ComputeSelector
    \/ DecodeStart
    \/ DecodeSlice
    \/ DecodeStop

----------------------------------------------------------------------------
(* index_postings *)

\* `if (frequency <= 0xFFFE)`
TF_LIMIT == 65534

\* std::numeric_limits<uint32_t>::max() in text_render, read as a signed word
NO_DOCUMENT == -1

\* term_frequencies.back() after push_back's increment
BumpedFrequency(frequency) == IF frequency <= TF_LIMIT THEN frequency + 1 ELSE frequency

\* document_ids after push_back(document_id, ...)
DocumentIdsAfterAlwaysAppend(document_id) == Append(document_ids, document_id)

DocumentIdsAfter(document_id) ==
    IF document_id = highest_document THEN document_ids
    ELSE Append(document_ids, document_id)

\* term_frequencies after push_back(document_id, ...)
TermFrequenciesAfter(document_id) ==
    IF document_id = highest_document
    THEN [term_frequencies EXCEPT ![Len(term_frequencies)] = BumpedFrequency(@)]
    ELSE Append(term_frequencies, 1)

\* index_postings::push_back(document_id, position)
push_back(document_id, position) ==
    /\ document_ids' = DocumentIdsAfter(document_id)
    /\ term_frequencies' = TermFrequenciesAfter(document_id)
    /\ highest_document' = document_id
    /\ positions' = Append(positions, position)
    /\ highest_position' = position
    /\ pushed' = Append(pushed, <<document_id, position>>)

\* the first position the unit test pushes
FIRST_POSITION == 100

\* a caller pushes any document id and position of the model
PushBack ==
    /\ phase = "building"
    /\ Len(pushed) < MaxPushes
    /\ \E document_id \in 1 .. MaxDocument,
          position \in FIRST_POSITION .. (FIRST_POSITION + MaxPosition - 1) :
         push_back(document_id, position)
    /\ UNCHANGED <<phase, stream, leading_run>>
    /\ UNCHANGED notPostingsVars

\* a caller goes on pushing into a long list: the same document or the next
\* one, at the next position or the one after it
PushBackNext ==
    /\ phase = "building"
    /\ Len(pushed) < MaxPushes
    /\ \E document_id \in {highest_document, highest_document + 1},
          position \in {highest_position + 1, highest_position + 2} :
         push_back(document_id, position)
    /\ UNCHANGED <<phase, stream, leading_run>>
    /\ UNCHANGED notPostingsVars

\* positions.size()
NumberOfPositions == leading_run + Len(positions)

\* positions[i]
PositionAt(i) == IF i <= leading_run THEN i ELSE positions[i - leading_run]

\* every push_back so far, those of the leading run included
Calls == [i \in 1 .. leading_run |-> <<1, i>>] \o pushed

(* index_postings::iterator: the three dynamic_array iterators are indices
   (1-based, one past the length at the end).  frequencies_remaining is a
   uint32_t: a value below 0 stands for the wrapped-around count. *)

begin ==
    [document |-> 1, frequency |-> 1, position |-> 1,
     frequencies_remaining |-> IF term_frequencies # <<>> THEN term_frequencies[1] ELSE 0]

end ==
    [document |-> Len(document_ids) + 1, frequency |-> Len(term_frequencies) + 1,
     position |-> NumberOfPositions + 1, frequencies_remaining |-> 0]

\* iterator::operator!=
IteratorDiffers(it, other) == other.position # it.position

\* iterator::operator*
Dereference(it) ==
    <<document_ids[it.document], term_frequencies[it.frequency], PositionAt(it.position)>>

\* iterator::operator++ that forgets to move on to the next document
IncrementKeepsDocument(it) ==
    [it EXCEPT !.frequencies_remaining = it.frequencies_remaining - 1,
               !.position = it.position + 1]

\* iterator::operator++
Increment(it) ==
    IF it.frequencies_remaining - 1 = 0
    THEN [document |-> it.document + 1,
          frequency |-> it.frequency + 1,
          position |-> it.position + 1,
          frequencies_remaining |->
              IF it.frequency + 1 # Len(term_frequencies) + 1
              THEN term_frequencies[it.frequency + 1] ELSE 0]
    ELSE [it EXCEPT !.frequencies_remaining = it.frequencies_remaining - 1,
                    !.position = it.position + 1]

RECURSIVE PostingsFrom(_)
\* the postings `for (const auto &posting : *this)` visits from `it` on
PostingsFrom(it) ==
    IF IteratorDiffers(it, end) THEN <<Dereference(it)>> \o PostingsFrom(Increment(it))
    ELSE <<>>

RECURSIVE IteratorAtEnd(_)
\* the iterator value with which the range-for leaves its loop
IteratorAtEnd(it) == IF IteratorDiffers(it, end) THEN IteratorAtEnd(Increment(it)) ELSE it

(* text_render: the stream is a sequence of characters *)

Digit(d) == <<"0", "1", "2", "3", "4", "5", "6", "7", "8", "9">>[d + 1]

RECURSIVE Decimal(_)
\* operator<<(std::ostream &, uint32_t)
Decimal(x) == IF x < 10 THEN <<Digit(x)>> ELSE Decimal(x \div 10) \o <<Digit(x % 10)>>

\* what the body of text_render's loop writes for one posting
RenderedPostingNoClose(posting, previous_document_id) ==
    IF posting[1] # previous_document_id
    THEN <<"<">> \o Decimal(posting[1]) \o <<",">> \o Decimal(posting[2])
         \o <<",">> \o Decimal(posting[3])
    ELSE <<",">> \o Decimal(posting[3])

RenderedPosting(posting, previous_document_id) ==
    IF posting[1] # previous_document_id
    THEN (IF previous_document_id # NO_DOCUMENT THEN <<">">> ELSE <<>>)
         \o <<"<">> \o Decimal(posting[1]) \o <<",">> \o Decimal(posting[2])
         \o <<",">> \o Decimal(posting[3])
    ELSE <<",">> \o Decimal(posting[3])

RECURSIVE RenderFrom(_, _, _)
RenderFrom(postings, i, previous_document_id) ==
    IF i > Len(postings) THEN <<">">>
    ELSE RenderedPosting(postings[i], previous_document_id)
         \o RenderFrom(postings, i + 1, postings[i][1])

\* index_postings::text_render(stream), into an empty stream
TextRender ==
    /\ phase = "building"
    /\ stream' = RenderFrom(PostingsFrom(begin), 1, NO_DOCUMENT)
    /\ phase' = "rendered"
    /\ UNCHANGED <<highest_document, highest_position, document_ids, term_frequencies,
                   positions, leading_run, pushed>>
    /\ UNCHANGED notPostingsVars

\* index_postings::index_postings(allocator &)
PostingsInit ==
    /\ phase = "building"
    /\ highest_document = 0
    /\ highest_position = 0
    /\ document_ids = <<>>
    /\ term_frequencies = <<>>
    /\ positions = <<>>
    /\ leading_run = 0
    /\ pushed = <<>>
    /\ stream = <<>>

\* a list into which document 1 has been pushed TF_LIMIT - 1 times, at the
\* positions 1, 2, ...
NearSaturationInit ==
    /\ phase = "building"
    /\ highest_document = 1
    /\ highest_position = TF_LIMIT - 1
    /\ document_ids = <<1>>
    /\ term_frequencies = <<TF_LIMIT - 1>>
    /\ positions = <<>>
    /\ leading_run = TF_LIMIT - 1
    /\ pushed = <<>>
    /\ stream = <<>>

----------------------------------------------------------------------------
(* quantize.  A score is a double; the model counts scores in units of the
   smallest positive double, so that std::numeric_limits<double>::min() is 1,
   every score is a whole number of units and the arithmetic is exact. *)

\* the number of postings of the largest index
MaxPostings == 3

\* std::numeric_limits<double>::min(): the smallest positive double
DOUBLE_MIN == 1

\* std::numeric_limits<double>::max(): above every score
DOUBLE_MAX == 1000000

\* index_postings_impact::smallest_impact and largest_impact
smallest_impact == 1

largest_impact == 255

\* the number of values of index_postings_impact::impact_type (8 bits)
IMPACT_TYPE_VALUES == 256

impact_range == largest_impact - smallest_impact

\* the doubles that are no finite number, as values beyond DOUBLE_MAX
POSITIVE_INFINITY == DOUBLE_MAX + 1

NEGATIVE_INFINITY == -(DOUBLE_MAX + 1)

NOT_A_NUMBER == DOUBLE_MAX + 2

IsFinite(x) == -DOUBLE_MAX <= x /\ x <= DOUBLE_MAX

\* operator< on doubles: a comparison with NaN is false
Less(x, y) == x # NOT_A_NUMBER /\ y # NOT_A_NUMBER /\ x < y

\* the scores a ranker yields: negative, zero, positive
Scores == {-5, 0, 2, 7}

\* the scores of a ranker that leaves the finite numbers
ScoresOffDomain == {0, 7, POSITIVE_INFINITY, NEGATIVE_INFINITY, NOT_A_NUMBER}

\* what static_cast<impact_type> can leave when the double it converts is
\* NaN, infinite or outside the type: nothing defines the value
UndefinedCasts == {0, IMPACT_TYPE_VALUES - 1}

\* the rankers over every index of at most k postings: one non-empty list of
\* scores per term
RECURSIVE RankersOver(_, _)
RankersOver(k, scores) ==
    IF k = 0 THEN {<<>>}
    ELSE {<<>>} \cup
         UNION {{<<first>> \o rest : first \in [1 .. df -> scores],
                                     rest \in RankersOver(k - df, scores)} : df \in 1 .. k}

RankersUpTo(k) == RankersOver(k, Scores)

\* the document frequency of a term
DocumentFrequency(term) == Len(rsv[term])

\* the number of documents in the collection
Documents == Max({0} \cup {DocumentFrequency(term) : term \in 1 .. Len(rsv)})

\* quantize::quantize, and the index it is about to iterate over with one of
\* the given rankers
QuantizeOver(rankers) ==
    /\ pass = "A"
    /\ next_term = 1
    /\ next_key = 1
    /\ rsv \in rankers
    /\ index_document_ids = [term \in 1 .. Len(rsv) |-> [i \in 1 .. Len(rsv[term]) |-> i]]
    /\ index_term_frequencies = [term \in 1 .. Len(rsv) |-> [i \in 1 .. Len(rsv[term]) |-> i]]
    /\ largest_rsv = DOUBLE_MIN
    /\ smallest_rsv = DOUBLE_MAX
    /\ bounds = <<>>
    /\ written = <<>>
    /\ written_keys = <<>>
    /\ ranker_calls = <<>>

QuantizeInit == QuantizeOver(RankersUpTo(MaxPostings))

\* the same with a ranker whose scores may be infinite or NaN
RankerDomainInit == QuantizeOver(RankersOver(MaxPostings, ScoresOffDomain))

\* the loop of pass A over one term's postings, from posting i on
RECURSIVE TallyFrom(_, _, _, _)
TallyFrom(scores, i, smallest, largest) ==
    IF i > Len(scores) THEN <<smallest, largest>>
    ELSE LET score == scores[i]
         IN  TallyFrom(scores, i + 1,
                       IF Less(score, smallest) THEN score ELSE smallest,
                       IF Less(largest, score) THEN score ELSE largest)

\* a call of the ranker: the method and its arguments
RankerCall(method, first, second) ==
    [method |-> method, first |-> first, second |-> second]

\* the loop that calls compute_score before compute_tf_component
RECURSIVE PostingCallsScoreFirst(_, _)
PostingCallsScoreFirst(term, i) ==
    IF i > DocumentFrequency(term) THEN <<>>
    ELSE <<RankerCall("compute_score", index_document_ids[term][i] - 1,
                      index_term_frequencies[term][i]),
           RankerCall("compute_tf_component", index_term_frequencies[term][i], 0)>>
         \o PostingCallsScoreFirst(term, i + 1)

\* the calls the loop over a term's postings makes, from posting i on:
\* compute_tf_component(*current_tf), then
\* compute_score(*current_id - 1, *current_tf)
RECURSIVE PostingCalls(_, _)
PostingCalls(term, i) ==
    IF i > DocumentFrequency(term) THEN <<>>
    ELSE <<RankerCall("compute_tf_component", index_term_frequencies[term][i], 0),
           RankerCall("compute_score", index_document_ids[term][i] - 1,
                      index_term_frequencies[term][i])>>
         \o PostingCalls(term, i + 1)

\* the calls one postings callback of either pass makes to the ranker
RankerCalls(term) ==
    <<RankerCall("compute_idf_component", DocumentFrequency(term), Documents)>>
    \o PostingCalls(term, 1)

\* pass A's callback for a postings list
PassATerm ==
    /\ pass = "A"
    /\ next_term <= Len(rsv)
    /\ LET tally == TallyFrom(rsv[next_term], 1, smallest_rsv, largest_rsv)
       IN  /\ smallest_rsv' = tally[1]
           /\ largest_rsv' = tally[2]
    /\ ranker_calls' = RankerCalls(next_term)
    /\ next_term' = next_term + 1
    /\ UNCHANGED <<pass, next_key, rsv, index_document_ids, index_term_frequencies,
                   bounds, written, written_keys>>
    /\ UNCHANGED notQuantizeVars

\* pass A's callback for a primary key: nothing
PassAPrimaryKey ==
    /\ pass = "A"
    /\ next_term > Len(rsv)
    /\ next_key <= Documents
    /\ next_key' = next_key + 1
    /\ UNCHANGED <<pass, next_term, rsv, index_document_ids, index_term_frequencies,
                   smallest_rsv, largest_rsv, bounds, written, written_keys>>
    /\ UNCHANGED ranker_calls
    /\ UNCHANGED notQuantizeVars

\* the iteration of the running pass has made all its callbacks
IterationOver == next_term > Len(rsv) /\ next_key > Documents

\* get_bounds, called once the first pass is over
GetBounds ==
    /\ pass = "B" \/ (pass = "A" /\ IterationOver)
    /\ bounds' = <<smallest_rsv, largest_rsv>>
    /\ UNCHANGED <<pass, next_term, next_key, rsv, index_document_ids,
                   index_term_frequencies, smallest_rsv, largest_rsv, written,
                   written_keys>>
    /\ UNCHANGED ranker_calls
    /\ UNCHANGED notQuantizeVars

\* serialise_index with one serialiser: the second iteration starts
SerialiseIndex ==
    /\ pass = "A"
    /\ IterationOver
    /\ pass' = "B"
    /\ next_term' = 1
    /\ next_key' = 1
    /\ UNCHANGED <<rsv, index_document_ids, index_term_frequencies, smallest_rsv,
                   largest_rsv, bounds, written, written_keys>>
    /\ UNCHANGED ranker_calls
    /\ UNCHANGED notQuantizeVars

\* the impact pass B gives a score.  The quotient is a double: with a range
\* of zero, or with an operand that is infinite or NaN, it is NaN or infinite
\* (but for a finite difference over an infinite range, which is 0), and its
\* conversion to impact_type is then undefined, as is that of any quotient the
\* type cannot hold.  The sum with smallest_impact is stored in an impact_type.
QuantizedQuotientTruncated(score, cast) ==
    LET range == largest_rsv - smallest_rsv
        finite == IsFinite(score) /\ IsFinite(smallest_rsv) /\ IsFinite(largest_rsv)
        vanishes == /\ IsFinite(score) /\ IsFinite(smallest_rsv)
                    /\ largest_rsv = POSITIVE_INFINITY
        scaled == IF vanishes THEN 0
                  ELSE IF ~finite \/ range = 0 THEN -1
                  ELSE ((score - smallest_rsv) \div range) * impact_range
        converted == IF scaled < 0 \/ scaled >= IMPACT_TYPE_VALUES THEN cast ELSE scaled
    IN  (converted + smallest_impact) % IMPACT_TYPE_VALUES

Quantized(score, cast) ==
    LET range == largest_rsv - smallest_rsv
        finite == IsFinite(score) /\ IsFinite(smallest_rsv) /\ IsFinite(largest_rsv)
        vanishes == /\ IsFinite(score) /\ IsFinite(smallest_rsv)
                    /\ largest_rsv = POSITIVE_INFINITY
        scaled == IF vanishes THEN 0
                  ELSE IF ~finite \/ range = 0 THEN -1
                  ELSE ((score - smallest_rsv) * impact_range) \div range
        converted == IF scaled < 0 \/ scaled >= IMPACT_TYPE_VALUES THEN cast ELSE scaled
    IN  (converted + smallest_impact) % IMPACT_TYPE_VALUES

\* the writer called with the term frequencies as they were received
HandedToWriterBeforeOverwrite(term, impacts) ==
    [term |-> term,
     document_frequency |-> DocumentFrequency(term),
     document_ids |-> index_document_ids[term],
     term_frequencies |-> index_term_frequencies[term]]

\* `writer(term, postings, document_frequency, document_ids, term_frequencies)`
\* after the loop that stored the impacts in term_frequencies
HandedToWriter(term, impacts) ==
    [term |-> term,
     document_frequency |-> DocumentFrequency(term),
     document_ids |-> index_document_ids[term],
     term_frequencies |-> impacts]

\* pass B's callback for a postings list: every term frequency is replaced
\* by its impact, then the writer is called
PassBTerm ==
    /\ pass = "B"
    /\ next_term <= Len(rsv)
    /\ \E casts \in [1 .. DocumentFrequency(next_term) -> UndefinedCasts] :
           LET impacts == [i \in 1 .. DocumentFrequency(next_term) |->
                               Quantized(rsv[next_term][i], casts[i])]
           IN  /\ index_term_frequencies' =
                      [index_term_frequencies EXCEPT ![next_term] = impacts]
               /\ written' = Append(written, HandedToWriter(next_term, impacts))
    /\ ranker_calls' = RankerCalls(next_term)
    /\ next_term' = next_term + 1
    /\ UNCHANGED <<pass, next_key, rsv, index_document_ids, smallest_rsv, largest_rsv,
                   bounds, written_keys>>
    /\ UNCHANGED notQuantizeVars

\* pass B's callback for a primary key: handed to the writer
PassBPrimaryKey ==
    /\ pass = "B"
    /\ next_term > Len(rsv)
    /\ next_key <= Documents
    /\ written_keys' = Append(written_keys, next_key)
    /\ next_key' = next_key + 1
    /\ UNCHANGED <<pass, next_term, rsv, index_document_ids, index_term_frequencies,
                   smallest_rsv, largest_rsv, bounds, written>>
    /\ UNCHANGED ranker_calls
    /\ UNCHANGED notQuantizeVars

QuantizeNext ==
    \/ PassATerm
    \/ PassAPrimaryKey
    \/ GetBounds
    \/ SerialiseIndex
    \/ PassBTerm
    \/ PassBPrimaryKey

----------------------------------------------------------------------------
(* pointer_box<int>: a box holds the address of an element of int_array; the
   address is the element's index, so that an earlier member of the array
   has the lower address *)

\* operator* of a box: the value pointed to
ValueAt(pointer) == int_array[pointer]

\* compare() that leaves ties on the value unbroken
compare_values_only(this, to) ==
    IF ValueAt(this) < ValueAt(to) THEN -1
    ELSE IF ValueAt(this) > ValueAt(to) THEN 1
    ELSE 0

\* pointer_box::compare
compare(this, to) ==
    IF ValueAt(this) < ValueAt(to) THEN -1
    ELSE IF ValueAt(this) > ValueAt(to) THEN 1
    ELSE IF this < to THEN -1
    ELSE IF this > to THEN 1
    ELSE 0

\* pointer_box::operator<
LessThan(this, to) ==
    ValueAt(this) < ValueAt(to) \/ (ValueAt(this) = ValueAt(to) /\ this < to)

\* pointer_box::operator<=
LessThanOrEqual(this, to) ==
    ValueAt(this) <= ValueAt(to) \/ (ValueAt(this) = ValueAt(to) /\ this <= to)

\* pointer_box::operator>
GreaterThan(this, to) ==
    ValueAt(this) > ValueAt(to) \/ (ValueAt(this) = ValueAt(to) /\ this > to)

\* pointer_box::operator>=
GreaterThanOrEqual(this, to) ==
    ValueAt(this) >= ValueAt(to) \/ (ValueAt(this) = ValueAt(to) /\ this >= to)

\* pointer_box::operator==
Equal(this, to) == this = to /\ ValueAt(this) = ValueAt(to)

\* pointer_box::operator!=
NotEqual(this, to) == this # to \/ ValueAt(this) # ValueAt(to)

\* the values of the unit test's array
BoxValues == {3, 6}

\* two boxes into an array, before any comparison
BoxInit ==
    /\ int_array \in UNION {[1 .. k -> BoxValues] : k \in 1 .. MaxElements}
    /\ element \in 1 .. Len(int_array)
    /\ to_element \in 1 .. Len(int_array)
    /\ outcome = <<>>

\* the result of one operation is recorded
Record(operation, value) ==
    /\ operation \notin DOMAIN outcome
    /\ outcome' = outcome @@ (operation :> value)
    /\ UNCHANGED <<int_array, element, to_element>>
    /\ UNCHANGED notBoxVars

BoxCompare == Record("compare", compare(element, to_element))

\* the same two boxes compared the other way round
BoxCompareReversed == Record("compare_reversed", compare(to_element, element))

BoxLessThan == Record("<", LessThan(element, to_element))

BoxLessThanOrEqual == Record("<=", LessThanOrEqual(element, to_element))

\* the other way round, as in the antisymmetry of <=
BoxLessThanOrEqualReversed == Record("<= reversed", LessThanOrEqual(to_element, element))

BoxGreaterThan == Record(">", GreaterThan(element, to_element))

BoxGreaterThanOrEqual == Record(">=", GreaterThanOrEqual(element, to_element))

BoxEqual == Record("==", Equal(element, to_element))

BoxNotEqual == Record("!=", NotEqual(element, to_element))

BoxNext ==
    \/ BoxCompare
    \/ BoxCompareReversed
    \/ BoxLessThan
    \/ BoxLessThanOrEqual
    \/ BoxLessThanOrEqualReversed
    \/ BoxGreaterThan
    \/ BoxGreaterThanOrEqual
    \/ BoxEqual
    \/ BoxNotEqual

----------------------------------------------------------------------------
(* The dumper: main of jassv1_to_human, with walk_index and printer.  The
   reader (deserialised_jass_v1) and the decoders are not part of the source
   at hand; codex and decode_and_process follow sections 4.5.2, 4.6 and 4.7
   of the specification. *)

\* no status: the process has not ended
RUNNING == -1

\* the d-ness values codex accepts
DNessDomain == {0, 1, -1}

\* the d-ness values an index file can hold
DNessOnDisk == DNessDomain \cup {2}

\* the stored integers of the one segment of every term: doc ids 1 and 3 as
\* they are (d0, none) or as gaps (d1)
StoredIntegers(dness) == IF dness = 1 THEN <<1, 2>> ELSE <<1, 3>>

\* main never reaches the index for a --help command line
HelpIgnored == FALSE

\* parameter_help after a successful parse
HelpRequested == command_line.valid /\ command_line.help

\* JASS::commandline::parse fails: the errors are printed, exit(1)
DumperParseFails ==
    /\ dumper_pc = "start"
    /\ ~command_line.valid
    /\ standard_out' = Append(standard_out, [kind |-> "errors"])
    /\ exit_status' = 1
    /\ dumper_pc' = "exited"
    /\ UNCHANGED <<command_line, index_file, index_read, d_ness, walked_with,
                   decode_calls>>
    /\ UNCHANGED notDumperVars

\* usage(): prints the usage text and returns the exit status
usage == 1

\* exit(usage(argv[0]))
DumperHelp ==
    /\ dumper_pc = "start"
    /\ command_line.valid
    /\ HelpRequested
    /\ standard_out' = Append(standard_out, [kind |-> "usage"])
    /\ exit_status' = usage
    /\ dumper_pc' = "exited"
    /\ UNCHANGED <<command_line, index_file, index_read, d_ness, walked_with,
                   decode_calls>>
    /\ UNCHANGED notDumperVars

\* read_index and codex, on an index whose d-ness is in the domain
DumperReadIndex ==
    /\ dumper_pc = "start"
    /\ command_line.valid
    /\ ~HelpRequested
    /\ index_file.d_ness \in DNessDomain
    /\ index_read' = TRUE
    /\ d_ness' = index_file.d_ness
    /\ dumper_pc' = "read"
    /\ UNCHANGED <<command_line, index_file, walked_with, decode_calls, standard_out,
                   exit_status>>
    /\ UNCHANGED notDumperVars

\* read_index and codex, on an index whose d-ness is outside the domain: the
\* reader ends the process
DumperIndexCorrupt ==
    /\ dumper_pc = "start"
    /\ command_line.valid
    /\ ~HelpRequested
    /\ index_file.d_ness \notin DNessDomain
    /\ index_read' = TRUE
    /\ dumper_pc' = "fatal"
    /\ UNCHANGED <<command_line, index_file, d_ness, walked_with, decode_calls,
                   standard_out, exit_status>>
    /\ UNCHANGED notDumperVars

\* the dispatch that sends d-ness 1 to the passthrough decoder
DecoderForgetsD1(dness) == IF dness = 0 THEN "decoder_d0" ELSE "decoder_none"

\* the DECODER main instantiates walk_index with
DecoderFor(dness) ==
    IF dness = 0 THEN "decoder_d0"
    ELSE IF dness = 1 THEN "decoder_d1"
    ELSE "decoder_none"

RECURSIVE PrefixSum(_, _)
PrefixSum(gaps, before) ==
    IF gaps = <<>> THEN <<>>
    ELSE <<before + Head(gaps)>> \o PrefixSum(Tail(gaps), before + Head(gaps))

\* the doc ids a decoder reconstructs from the stored integers
Reconstructed(decoder, integers) ==
    IF decoder = "decoder_d1" THEN PrefixSum(integers, 0) ELSE integers

\* printer: push_back for each full group of 8 doc ids, which skips the
\* zeros, and add_rsv for the rest
Printed(docids, impact) ==
    LET vectored == 8 * (Len(docids) \div 8)
        shown == {i \in 1 .. Len(docids) : i > vectored \/ docids[i] # 0}
        RECURSIVE From(_)
        From(i) ==
            IF i > Len(docids) THEN <<>>
            ELSE (IF i \in shown
                  THEN <<[kind |-> "posting", document |-> docids[i], impact |-> impact]>>
                  ELSE <<>>) \o From(i + 1)
    IN  From(1)

\* the bytes of the compressed payload of a segment
SegmentBytes == 4 * Len(StoredIntegers(index_file.d_ness))

RECURSIVE SegmentsBefore(_)
\* how many segments the terms before `term` have
SegmentsBefore(term) ==
    IF term = 1 THEN 0 ELSE index_file.impacts[term - 1] + SegmentsBefore(term - 1)

\* the segment header of segment number `segment` (from 0) of a term: the
\* segments of a term are stored from the highest impact down, their
\* payloads one after the other
SegmentHeader(term, segment) ==
    [impact |-> index_file.impacts[term] - segment,
     segment_frequency |-> Len(StoredIntegers(index_file.d_ness)),
     offset |-> (SegmentsBefore(term) + segment) * SegmentBytes,
     end |-> (SegmentsBefore(term) + segment + 1) * SegmentBytes]

\* the term_record the iteration over the vocabulary yields for a term;
\* `offset` is where its array of pointers to segment headers starts
TermRecord(term) ==
    [term |-> term, offset |-> SegmentsBefore(term), impacts |-> index_file.impacts[term]]

\* the segment header a slot of the arrays of pointers leads to
HeaderAt(pointer) ==
    LET term == CHOOSE t \in 1 .. index_file.terms :
                    /\ SegmentsBefore(t) <= pointer
                    /\ pointer < SegmentsBefore(t) + index_file.impacts[t]
    IN  SegmentHeader(term, pointer - SegmentsBefore(term))

\* the call made for every segment with the header of the term's first one
SegmentCallFirstHeader(term, current_segment) ==
    LET header == HeaderAt(term.offset)
    IN  [impact |-> header.impact,
         integers |-> header.segment_frequency,
         source |-> header.offset,
         source_length |-> header.end - header.offset]

\* the arguments of decode_and_process for one segment of a term:
\* `postings = (uint64_t *)term.offset + current_segment`, the header it
\* points to, then impact, segment_frequency, offset and end - offset
SegmentCall(term, current_segment) ==
    LET header == HeaderAt(term.offset + current_segment)
    IN  [impact |-> header.impact,
         integers |-> header.segment_frequency,
         source |-> header.offset,
         source_length |-> header.end - header.offset]

RECURSIVE SegmentCalls(_, _)
\* the loop over the segments of a term, from current_segment on
SegmentCalls(term, current_segment) ==
    IF current_segment >= term.impacts THEN <<>>
    ELSE <<SegmentCall(term, current_segment)>> \o SegmentCalls(term, current_segment + 1)

RECURSIVE PrintedCalls(_, _)
\* what decode_and_process hands the printer over a sequence of calls
PrintedCalls(decoder, calls) ==
    IF calls = <<>> THEN <<>>
    ELSE Printed(Reconstructed(decoder, StoredIntegers(index_file.d_ness)),
                 Head(calls).impact)
         \o PrintedCalls(decoder, Tail(calls))

RECURSIVE CallsFrom(_)
\* walk_index: the calls of decode_and_process from term number `term` on
CallsFrom(term) ==
    IF term > index_file.terms THEN <<>>
    ELSE SegmentCalls(TermRecord(term), 0) \o CallsFrom(term + 1)

\* walk_index<DECODER>: what it prints from term number `term` on
RECURSIVE WalkFrom(_, _)
WalkFrom(decoder, term) ==
    IF term > index_file.terms THEN <<>>
    ELSE <<[kind |-> "term", term |-> term]>>
         \o PrintedCalls(decoder, SegmentCalls(TermRecord(term), 0))
         \o <<[kind |-> "newline"]>>
         \o WalkFrom(decoder, term + 1)

\* the heading of a section of the output, outside ATIRE mode
Heading(text) ==
    IF command_line.atire THEN <<>> ELSE <<[kind |-> "heading", text |-> text]>>

\* main: the postings lists are printed
DumperWalkIndex ==
    /\ dumper_pc = "read"
    /\ walked_with' = DecoderFor(d_ness)
    /\ decode_calls' = CallsFrom(1)
    /\ standard_out' = standard_out \o Heading("POSTINGS LISTS")
                                    \o WalkFrom(DecoderFor(d_ness), 1)
    /\ dumper_pc' = "walked"
    /\ UNCHANGED <<command_line, index_file, index_read, d_ness, exit_status>>
    /\ UNCHANGED notDumperVars

\* the primary keys, one to a line
PrimaryKeyList ==
    [key \in 1 .. index_file.primary_keys |-> [kind |-> "primary_key", key |-> key]]

\* main: the primary keys are printed outside ATIRE mode; return 0
DumperReturn ==
    /\ dumper_pc = "walked"
    /\ standard_out' = standard_out \o Heading("PRIMARY KEY LIST")
                           \o (IF command_line.atire THEN <<>> ELSE PrimaryKeyList)
    /\ exit_status' = 0
    /\ dumper_pc' = "returned"
    /\ UNCHANGED <<command_line, index_file, index_read, d_ness, walked_with,
                   decode_calls>>
    /\ UNCHANGED notDumperVars

\* the process starts on any command line and any index
DumperInit ==
    /\ dumper_pc = "start"
    /\ command_line \in [valid : BOOLEAN, help : BOOLEAN, atire : BOOLEAN]
    /\ index_file \in
           UNION {[d_ness : DNessOnDisk, terms : {terms},
                   primary_keys : 0 .. MaxDumped,
                   impacts : [1 .. terms -> 0 .. MaxSegments]] : terms \in 0 .. MaxDumped}
    /\ index_read = FALSE
    /\ d_ness = 0
    /\ walked_with = ""
    /\ decode_calls = <<>>
    /\ standard_out = <<>>
    /\ exit_status = RUNNING

DumperNext ==
    \/ DumperParseFails
    \/ DumperHelp
    \/ DumperReadIndex
    \/ DumperIndexCorrupt
    \/ DumperWalkIndex
    \/ DumperReturn

----------------------------------------------------------------------------
(* evaluate_cheapest_precision::compute, for one query.  A document is the
   rank of its id in the order of judgement::operator<; all judgements at
   hand are of the one query, so that order is the order of the ids. *)

\* the sorted sequence of the elements of a set of integers
RECURSIVE Sorted(_)
Sorted(set) == IF set = {} THEN <<>> ELSE <<Min(set)>> \o Sorted(set \ {Min(set)})

\* std::lower_bound over query_prices: the index of the first element that
\* is not less than the document looked for, one past the end when there is
\* none
lower_bound(looking_for) ==
    Min({i \in 1 .. Len(query_prices) : ~(query_prices[i] < looking_for)}
        \cup {Len(query_prices) + 1})

\* the loop over the assessments, the early return, the sort and query_depth
ComputeCollect ==
    /\ compute_pc = "collect"
    /\ LET relevant == {document \in DOMAIN assessments : assessments[document] # 0}
       IN  /\ query_prices' = Sorted(relevant)
           /\ IF relevant = {}
              THEN /\ precision' = <<1, 1>>
                   /\ compute_pc' = "returned"
                   /\ UNCHANGED query_depth
              ELSE /\ query_depth' = Min({Cardinality(relevant), depth})
                   /\ compute_pc' = IF results_list = <<>> THEN "return" ELSE "loop"
                   /\ UNCHANGED precision
    /\ UNCHANGED <<assessments, results_list, depth, which, found_and_relevant>>
    /\ UNCHANGED notPrecisionVars

\* the loop is left after this result: break, or the list is exhausted
LoopEnds(examined) == examined >= depth \/ examined >= Len(results_list)

\* one pass of the loop over results_list.  When the result is greater than
\* every element of query_prices, found is query_prices.end() and reading
\* found->document_id is undefined: the test may come out either way.
ComputeResult ==
    /\ compute_pc = "loop"
    /\ LET looking_for == results_list[which + 1]
           found == lower_bound(looking_for)
       IN  \E matches \in BOOLEAN :
               /\ found <= Len(query_prices) =>
                      (matches <=> query_prices[found] = looking_for)
               /\ found_and_relevant' =
                      IF matches THEN found_and_relevant + 1 ELSE found_and_relevant
    /\ which' = which + 1
    /\ compute_pc' = IF LoopEnds(which + 1) THEN "return" ELSE "loop"
    /\ UNCHANGED <<assessments, results_list, depth, query_prices, query_depth, precision>>
    /\ UNCHANGED notPrecisionVars

\* return found_and_relevant / query_depth
ComputeReturn ==
    /\ compute_pc = "return"
    /\ precision' = <<found_and_relevant, query_depth>>
    /\ compute_pc' = "returned"
    /\ UNCHANGED <<assessments, results_list, depth, query_prices, query_depth, which,
                   found_and_relevant>>
    /\ UNCHANGED notPrecisionVars

\* compute is called on any assessments, results list and depth
ComputeInit ==
    /\ compute_pc = "collect"
    /\ assessments \in [1 .. MaxJudged -> {0, 1}]
    /\ results_list \in UNION {[1 .. k -> 1 .. MaxJudged] : k \in 0 .. MaxResults}
    /\ depth \in 0 .. MaxResults + 1
    /\ query_prices = <<>>
    /\ query_depth = 0
    /\ which = 0
    /\ found_and_relevant = 0
    /\ precision = <<>>

ComputeNext ==
    \/ ComputeCollect
    \/ ComputeResult
    \/ ComputeReturn

----------------------------------------------------------------------------
(* Specifications *)

CodecIdle ==
    /\ pc = "idle"
    /\ array = <<>>
    /\ n = 0
    /\ encoded_buffer_length = 0
    /\ memory = <<>>
    /\ written_to = 0
    /\ consumed = 0
    /\ elements = 0
    /\ destination = 0
    /\ selector_at = 0
    /\ remaining = 0
    /\ cumulative_shift = 0
    /\ slice = 0
    /\ encodings = EmptyEncodings
    /\ result = 0
    /\ source = 0
    /\ source_length = 0
    /\ selector = {}
    /\ payload = NoPayload
    /\ decoded = <<>>
    /\ widths = <<>>

PostingsIdle == PostingsInit

BoxIdle ==
    /\ int_array = <<>>
    /\ element = 0
    /\ to_element = 0
    /\ outcome = <<>>

DumperIdle ==
    /\ dumper_pc = "idle"
    /\ command_line = <<>>
    /\ index_file = <<>>
    /\ index_read = FALSE
    /\ d_ness = 0
    /\ walked_with = ""
    /\ decode_calls = <<>>
    /\ standard_out = <<>>
    /\ exit_status = RUNNING

PrecisionIdle ==
    /\ compute_pc = "idle"
    /\ assessments = <<>>
    /\ results_list = <<>>
    /\ depth = 0
    /\ query_prices = <<>>
    /\ query_depth = 0
    /\ which = 0
    /\ found_and_relevant = 0
    /\ precision = <<>>

\* the small components, not in use
ToolsIdle == BoxIdle /\ DumperIdle /\ PrecisionIdle

QuantizeIdle ==
    /\ pass = "idle"
    /\ next_term = 0
    /\ next_key = 0
    /\ rsv = <<>>
    /\ index_document_ids = <<>>
    /\ index_term_frequencies = <<>>
    /\ smallest_rsv = 0
    /\ largest_rsv = 0
    /\ bounds = <<>>
    /\ written = <<>>
    /\ written_keys = <<>>
    /\ ranker_calls = <<>>

\* encode, then decode of what it wrote
InitCodec == CodecInit /\ PostingsIdle /\ QuantizeIdle /\ ToolsIdle

SpecCodec == InitCodec /\ [][CodecNext]_vars

\* the same, each call running on until it returns
InitCodecLive == CodecLiveInit /\ PostingsIdle /\ QuantizeIdle /\ ToolsIdle

SpecCodecLive == InitCodecLive /\ [][CodecNext]_vars /\ WF_vars(CodecNext)

\* compute_selector, then decode of the frame that holds its value
InitSelector == SelectorInit /\ PostingsIdle /\ QuantizeIdle /\ ToolsIdle

SpecSelector == InitSelector /\ [][SelectorNext]_vars

\* push_back calls on a new list, then text_render
PostingsNext ==
    \/ PushBack
    \/ TextRender

InitPostings == PostingsInit /\ CodecIdle /\ QuantizeIdle /\ ToolsIdle

SpecPostings == InitPostings /\ [][PostingsNext]_vars

\* push_back calls on a list whose first document is about to saturate
InitSaturation == NearSaturationInit /\ CodecIdle /\ QuantizeIdle /\ ToolsIdle

SaturationNext == PushBackNext

SpecSaturation == InitSaturation /\ [][SaturationNext]_vars

\* the two passes of the quantizer over every small index
InitQuantize == QuantizeInit /\ CodecIdle /\ PostingsIdle /\ ToolsIdle

SpecQuantize == InitQuantize /\ [][QuantizeNext]_vars

\* the two passes with a ranker that leaves the finite numbers
InitRankerDomain == RankerDomainInit /\ CodecIdle /\ PostingsIdle /\ ToolsIdle

SpecRankerDomain == InitRankerDomain /\ [][QuantizeNext]_vars

\* every comparison of two boxes into a small array
InitBox ==
    BoxInit /\ CodecIdle /\ PostingsIdle /\ QuantizeIdle /\ DumperIdle /\ PrecisionIdle

SpecBox == InitBox /\ [][BoxNext]_vars

\* one run of the dumper
InitDumper ==
    DumperInit /\ CodecIdle /\ PostingsIdle /\ QuantizeIdle /\ BoxIdle /\ PrecisionIdle

SpecDumper == InitDumper /\ [][DumperNext]_vars

\* one call of evaluate_cheapest_precision::compute
InitCompute ==
    ComputeInit /\ CodecIdle /\ PostingsIdle /\ QuantizeIdle /\ BoxIdle /\ DumperIdle

SpecCompute == InitCompute /\ [][ComputeNext]_vars

----------------------------------------------------------------------------
(* Properties of the codec *)

IsPrefix(p, q) == Len(p) <= Len(q) /\ \A i \in 1 .. Len(p) : p[i] = q[i]

\* C1: round trip.  When encode has returned a non-zero size and decode has
\* run over that many bytes, the first n decoded integers are the n input
\* integers, in order.
C1_RoundTrip ==
    pc = "decode_done" =>
        /\ Len(decoded) >= n
        /\ \A i \in 1 .. n : decoded[i] = array[i]

\* C1 witness: a decoded stream of several frames whose last group is partial
C1_Witness ==
    /\ pc = "decode_done"
    /\ result >= 2 * FRAME_BYTES
    /\ n % WORDS # 0
    /\ \E i \in 1 .. n : array[i] = 0 .. 31

\* C2: selector bijection.  decode's find-first-set loop reads back from
\* compute_selector(w[1], ..., w[k], 0) exactly w[1], ..., w[k], in that
\* order, and then finds the selector to be 0 and stops.
C2_SelectorBijection ==
    /\ pc = "decode" => IsPrefix(widths, WidthsOf(encodings))
    /\ pc = "decode" /\ selector = {} /\ widths # <<>> => widths = WidthsOf(encodings)
    /\ pc = "decode_done" => widths = WidthsOf(encodings)

\* C2 witness: a sequence of MaxWidths widths that starts 3, 2 (as the
\* specification's scenario S6 does) and leaves bits of the word unused, read back
C2_Witness ==
    /\ pc = "decode_done"
    /\ Len(widths) = MaxWidths
    /\ SumOf(widths) < WORD_WIDTH
    /\ widths[1] = 3 /\ widths[2] = 2

\* the size of the encoded form: frames are filled greedily with the widths of
\* successive groups of WORDS integers (section 4.5.1 of the specification)
GroupWidth(in, g) ==
    ceiling_log2({0} \cup UNION {in[i] : i \in {j \in 1 .. Len(in) : (j - 1) \div WORDS = g}})

RECURSIVE FramesFrom(_, _, _, _)
FramesFrom(in, g, room, frames) ==
    IF g * WORDS >= Len(in) THEN frames
    ELSE IF GroupWidth(in, g) <= room
         THEN FramesFrom(in, g + 1, room - GroupWidth(in, g), frames)
         ELSE FramesFrom(in, g, WORD_WIDTH, frames + 1)

EncodedSize(in) == FRAME_BYTES * FramesFrom(in, 0, WORD_WIDTH, 1)

\* C3: encoder overflow.  encode never writes a byte at or past
\* encoded + encoded_buffer_length, and when the encoded form is larger than
\* encoded_buffer_length it returns 0.
C3_EncodeOverflow ==
    /\ written_to <= encoded_buffer_length
    /\ pc = "encode_done" /\ EncodedSize(array) > encoded_buffer_length => result = 0
    /\ pc = "encode_done" /\ result # 0 => result <= encoded_buffer_length

\* C3 witness: encode gave up with 0 after it had written a whole frame
C3_Witness ==
    /\ pc = "encode_done"
    /\ result = 0
    /\ written_to >= FRAME_BYTES
    /\ EncodedSize(array) > encoded_buffer_length

----------------------------------------------------------------------------
(* Properties of index_postings *)

\* the calls so far respect push_back's precondition: document ids from 1
\* that never decrease, positions that always increase
PreconditionRespected(calls) ==
    \A i \in 1 .. Len(calls) :
        /\ calls[i][1] >= 1
        /\ calls[i][2] > 0
        /\ i > 1 => calls[i][1] >= calls[i - 1][1] /\ calls[i][2] > calls[i - 1][2]

\* C4: tf saturation.  No stored term frequency exceeds 0xFFFE, however often
\* the same document is pushed.
C4_TfSaturation ==
    \A i \in 1 .. Len(term_frequencies) : term_frequencies[i] <= 65534

\* C5: one push_back(doc, pos).  When doc is the document of the previous
\* push_back, docids keeps its value and only the last tf changes, growing by
\* one while it is below saturation; otherwise doc is appended to docids and 1
\* to tfs, the earlier entries unchanged.  Either way pos is appended to
\* positions.
C5_PushBackStep ==
    [][pushed' # pushed =>
         LET doc == pushed'[Len(pushed')][1]
             pos == pushed'[Len(pushed')][2]
             last == Len(term_frequencies)
             previous == IF pushed # <<>> THEN pushed[Len(pushed)][1]
                         ELSE IF leading_run > 0 THEN 1 ELSE 0
         IN  /\ pushed' = Append(pushed, <<doc, pos>>)
             /\ positions' = Append(positions, pos)
             /\ leading_run' = leading_run
             /\ IF previous = doc
                THEN /\ document_ids' = document_ids
                     /\ Len(term_frequencies') = last
                     /\ \A i \in 1 .. last - 1 : term_frequencies'[i] = term_frequencies[i]
                     /\ term_frequencies[last] < 65534 =>
                            term_frequencies'[last] = term_frequencies[last] + 1
                ELSE /\ document_ids' = Append(document_ids, doc)
                     /\ term_frequencies' = Append(term_frequencies, 1)]_vars

\* C5 witness: both kinds of push_back have happened
C5_Witness ==
    /\ document_ids = <<1, 2>>
    /\ term_frequencies = <<2, 2>>
    /\ NumberOfPositions = 4

\* C6: postings ordering.  After calls that respect the precondition the
\* stored docids strictly increase, and iteration yields, in push order, one
\* (doc, tf, pos) per pushed position, docids never decreasing and positions
\* increasing within a docid.
C6_PostingsOrdering ==
    PreconditionRespected(Calls) =>
        LET postings == PostingsFrom(begin)
        IN  /\ \A i \in 1 .. Len(document_ids) - 1 : document_ids[i] < document_ids[i + 1]
            /\ Len(postings) = Len(Calls)
            /\ \A i \in 1 .. Len(postings) :
                   /\ postings[i][1] = Calls[i][1]
                   /\ postings[i][3] = Calls[i][2]
            /\ \A i \in 1 .. Len(postings) - 1 :
                   /\ postings[i][1] <= postings[i + 1][1]
                   /\ postings[i][1] = postings[i + 1][1] => postings[i][3] < postings[i + 1][3]

\* C6 witness: a list of two documents with two positions each, pushed in order
C6_Witness ==
    /\ PreconditionRespected(Calls)
    /\ Len(Calls) = 4
    /\ document_ids = <<1, 2>>
    /\ term_frequencies = <<2, 2>>

\* C7: position count.  The number of stored positions equals the sum of the
\* stored term frequencies.
C7_PositionCount == NumberOfPositions = SumOf(term_frequencies)

\* the postings of one document that a sequence of calls pushed
PositionsPushedFor(calls, doc) ==
    LET at == {i \in 1 .. Len(calls) : calls[i][1] = doc}
        RECURSIVE Ordered(_)
        Ordered(rest) ==
            IF rest = {} THEN <<>>
            ELSE <<calls[Min(rest)][2]>> \o Ordered(rest \ {Min(rest)})
    IN  Ordered(at)

RECURSIVE CommaSeparated(_)
CommaSeparated(numbers) ==
    IF numbers = <<>> THEN <<>>
    ELSE <<",">> \o Decimal(numbers[1]) \o CommaSeparated(Tail(numbers))

\* '<doc,tf,pos1,...,posk>' for one document
ExpectedGroup(calls, doc) ==
    <<"<">> \o Decimal(doc) \o <<",">> \o Decimal(Len(PositionsPushedFor(calls, doc)))
    \o CommaSeparated(PositionsPushedFor(calls, doc)) \o <<">">>

RECURSIVE ExpectedGroups(_, _)
ExpectedGroups(calls, docs) ==
    IF docs = {} THEN <<>>
    ELSE ExpectedGroup(calls, Min(docs)) \o ExpectedGroups(calls, docs \ {Min(docs)})

ExpectedText(calls) == ExpectedGroups(calls, {calls[i][1] : i \in 1 .. Len(calls)})

\* C8: text_render.  For a non-empty list built by calls that respect the
\* precondition the rendered text is, in docid order, one group
\* '<doc,tf,pos1,...,posk>' per pushed document, k being the number of
\* positions pushed for it and pos1..posk those positions in push order.
C8_TextRender ==
    phase = "rendered" /\ Calls # <<>> /\ PreconditionRespected(Calls) =>
        stream = ExpectedText(Calls)

\* C8 witness: the unit test's list, rendered as <1,2,100,101><2,2,102,103>
C8_Witness ==
    /\ phase = "rendered"
    /\ Calls = <<<<1, 100>>, <<1, 101>>, <<2, 102>>, <<2, 103>>>>
    /\ stream = <<"<", "1", ",", "2", ",", "1", "0", "0", ",", "1", "0", "1", ">",
                  "<", "2", ",", "2", ",", "1", "0", "2", ",", "1", "0", "3", ">">>

----------------------------------------------------------------------------
(* Properties of quantize *)

\* every score the ranker yields over the index
ObservedScores ==
    UNION {{rsv[term][i] : i \in 1 .. Len(rsv[term])} : term \in 1 .. Len(rsv)}

\* C9: pass A bounds.  After pass A over a non-empty index get_bounds returns
\* the minimum and the maximum of the scores the ranker yielded, whatever
\* their sign.
C9_PassABounds ==
    bounds # <<>> /\ ObservedScores # {} =>
        bounds = <<Min(ObservedScores), Max(ObservedScores)>>

\* C10: impact range.  Every impact pass B has written into term_frequencies
\* and handed to the writer lies in smallest_impact .. largest_impact.
C10_ImpactRange ==
    pass = "B" =>
        /\ \A w \in 1 .. Len(written) :
               \A i \in 1 .. Len(written[w].term_frequencies) :
                   written[w].term_frequencies[i] \in smallest_impact .. largest_impact
        /\ \A term \in 1 .. next_term - 1 :
               \A i \in 1 .. Len(index_term_frequencies[term]) :
                   index_term_frequencies[term][i] \in smallest_impact .. largest_impact

\* the score the ranker gave posting i of the w-th list handed to the writer
ScoreOfWritten(w, i) == rsv[written[w].term][i]

C12_ZeroRange ==
    largest_rsv = smallest_rsv =>
        \A w \in 1 .. Len(written) :
            \A i \in 1 .. Len(written[w].term_frequencies) :
                written[w].term_frequencies[i] = smallest_impact

\* C13: ranker domain error.  A score that is NaN or infinite is refused:
\* the bounds are never updated from it and no list with an impact derived
\* from it reaches the writer.
C13_RankerDomain ==
    /\ IsFinite(smallest_rsv)
    /\ IsFinite(largest_rsv)
    /\ \A w \in 1 .. Len(written) :
           \A i \in 1 .. Len(written[w].term_frequencies) : IsFinite(ScoreOfWritten(w, i))

----------------------------------------------------------------------------
(* Properties of pointer_box *)

\* the order by pointed-to value, then by address
Before(x, y) ==
    int_array[x] < int_array[y] \/ (int_array[x] = int_array[y] /\ x < y)

Made(operation) == operation \in DOMAIN outcome

\* C14: pointer_box ordering.  x < y exactly when x's value is less than
\* y's, or the values are equal and x's address is the lower; compare(x, y)
\* is negative, zero or positive in the same cases, zero only for the same
\* pointer, and of the opposite sign of compare(y, x).
C14_BoxOrdering ==
    /\ Made("<") => (outcome["<"] <=> Before(element, to_element))
    /\ Made("compare") =>
           /\ outcome["compare"] < 0 <=> Before(element, to_element)
           /\ outcome["compare"] > 0 <=> Before(to_element, element)
           /\ outcome["compare"] = 0 <=> element = to_element
    /\ Made("compare") /\ Made("<") => (outcome["<"] <=> outcome["compare"] < 0)
    /\ Made("compare") /\ Made("compare_reversed") =>
           /\ outcome["compare"] < 0 <=> outcome["compare_reversed"] > 0
           /\ outcome["compare"] > 0 <=> outcome["compare_reversed"] < 0
           /\ outcome["compare"] = 0 <=> outcome["compare_reversed"] = 0

\* C14 witness: the unit test's a and c, which tie on the value 6: a < c
C14_Witness ==
    /\ int_array = <<6, 3, 6>>
    /\ element = 1
    /\ to_element = 3
    /\ Made("<") /\ outcome["<"]
    /\ Made("compare") /\ outcome["compare"] < 0
    /\ Made("compare_reversed") /\ outcome["compare_reversed"] > 0

\* C15: operator consistency.  <=, >=, >, == and != agree with the sign of
\* compare, so that x <= y and y <= x together imply x == y.
C15_OperatorConsistency ==
    /\ Made("compare") /\ Made("<=") => (outcome["<="] <=> outcome["compare"] <= 0)
    /\ Made("compare") /\ Made(">=") => (outcome[">="] <=> outcome["compare"] >= 0)
    /\ Made("compare") /\ Made(">") => (outcome[">"] <=> outcome["compare"] > 0)
    /\ Made("compare") /\ Made("==") => (outcome["=="] <=> outcome["compare"] = 0)
    /\ Made("==") /\ Made("!=") => (outcome["!="] <=> ~outcome["=="])
    /\ Made("<=") /\ Made("<= reversed") /\ Made("==") =>
           (outcome["<="] /\ outcome["<= reversed"] => outcome["=="])

----------------------------------------------------------------------------
(* Properties of the dumper *)

\* how many items of a kind have been written to standard out
Written(kind) ==
    Cardinality({i \in 1 .. Len(standard_out) : standard_out[i].kind = kind})

\* C16: exit protocol.  A command line that does not parse gets the errors
\* and exit status 1, --help gets the usage text and exit status 1, and in
\* both cases the index is never read and no posting or primary key is
\* printed; otherwise main returns 0 after printing the postings lists and,
\* outside ATIRE mode, the primary keys.
C16_ExitProtocol ==
    /\ ~command_line.valid \/ command_line.help =>
           /\ ~index_read
           /\ Written("term") = 0 /\ Written("posting") = 0 /\ Written("primary_key") = 0
           /\ dumper_pc \in {"start", "exited"}
           /\ dumper_pc = "exited" =>
                  /\ exit_status = 1
                  /\ standard_out =
                         <<[kind |-> IF command_line.valid THEN "usage" ELSE "errors"]>>
    /\ dumper_pc = "returned" =>
           /\ exit_status = 0
           /\ Written("term") = index_file.terms
           /\ Written("primary_key") =
                  IF command_line.atire THEN 0 ELSE index_file.primary_keys
    /\ exit_status = 0 => dumper_pc = "returned"
    /\ command_line.valid /\ ~command_line.help /\ index_file.d_ness \in {0, 1, -1} =>
           dumper_pc \in {"start", "read", "walked", "returned"}

\* C16 witness: --help has printed the usage text and ended the process
C16_Witness ==
    /\ dumper_pc = "exited"
    /\ command_line.valid /\ command_line.help
    /\ index_file.terms > 0
    /\ standard_out = <<[kind |-> "usage"]>>
    /\ exit_status = 1

----------------------------------------------------------------------------
(* Properties of evaluate_cheapest_precision *)

\* the documents the query's assessments give a non-zero score
RelevantDocuments == {document \in DOMAIN assessments : assessments[document] # 0}

\* C18: compute returns 1 when the query has no relevant assessment;
\* otherwise, for depth >= 1, it returns the number of relevant entries
\* among the first `depth` of results_list over min(number of relevant
\* documents, depth), and looks at no entry beyond the first `depth`.
C18_CheapestPrecision ==
    /\ compute_pc = "returned" /\ RelevantDocuments = {} => precision = <<1, 1>>
    /\ compute_pc = "returned" /\ RelevantDocuments # {} /\ depth >= 1 =>
           precision =
               <<Cardinality({i \in 1 .. Min({depth, Len(results_list)}) :
                                  results_list[i] \in RelevantDocuments}),
                 Min({Cardinality(RelevantDocuments), depth})>>
    /\ depth >= 1 => which <= depth

----------------------------------------------------------------------------
(* Properties of the frames encode emits *)

\* encode has just written the selector of a frame: on closing a full frame
\* (back at the head of the while loop) or on returning from the last one
FrameEmitted ==
    \/ pc = "encode" /\ destination > 0
    \/ pc = "encode_done" /\ result > 0

\* the number of slices packed into the frame just emitted
FrameSlices == IF pc = "encode" THEN slice ELSE slice + 1

RECURSIVE EncodingsSum(_, _)
\* encodings[0] + ... + encodings[count - 1]
EncodingsSum(e, count) ==
    IF count = 0 THEN 0 ELSE e[count - 1] + EncodingsSum(e, count - 1)

\* C19: in every frame encode emits, whether closed because the next group
\* does not fit or closed on the end of the input, the recorded slice widths
\* are each at least 1 and, with the leftover bits folded into the last one,
\* sum to 32; the selector written is non-zero, has bit 31 set and has as
\* many set bits as the frame has slices.
C19_FramePadding ==
    FrameEmitted =>
        /\ FrameSlices >= 1
        /\ \A i \in 0 .. FrameSlices - 1 : encodings[i] >= 1
        /\ encodings[FrameSlices] = 0
        /\ EncodingsSum(encodings, FrameSlices) = WORD_WIDTH
        /\ memory[selector_at] # {}
        /\ (WORD_WIDTH - 1) \in memory[selector_at]
        /\ Cardinality(memory[selector_at]) = FrameSlices

\* C19 witness: encode has returned after two frames; the first was closed
\* with 31 slices because a 3-bit group did not fit its last bit, the second
\* holds that group alone, its width of 3 padded to 32
C19_Witness ==
    /\ pc = "encode_done"
    /\ result = 2 * FRAME_BYTES
    /\ Cardinality(memory[0]) = WORD_WIDTH - 1
    /\ memory[0] = (0 .. WORD_WIDTH - 1) \ {WORD_WIDTH - 2}
    /\ cumulative_shift = 3
    /\ encodings[0] = WORD_WIDTH
    /\ memory[selector_at] = {WORD_WIDTH - 1}

----------------------------------------------------------------------------
(* Properties of the slice width *)

\* the integers of group g of the input, positions past its end left out
GroupValues(g) ==
    {array[i] : i \in {j \in 1 .. Len(array) : (j - 1) \div WORDS = g}}

\* a < b as unsigned integers: the highest bit they differ in is b's
NumericLess(a, b) == a # b /\ Max((a \ b) \cup (b \ a)) \in b

\* max(values, 1) over group g
LargestValue(g) ==
    CHOOSE v \in GroupValues(g) \cup {{0}} :
        \A u \in GroupValues(g) \cup {{0}} : ~NumericLess(v, u)

\* ceil(log2(v)) for v >= 1, taken as 1 for v = 1
CeilingOfLog2(v) ==
    IF v = {0} THEN 1
    ELSE IF Cardinality(v) = 1 THEN Max(v) ELSE Max(v) + 1

\* floor(log2(v)) + 1 for v >= 1: the number of bits v takes
BitLength(v) == Max(v) + 1

\* a group has just been packed: by a pass of the for loop that goes on, or by
\* the pass that returns
GroupPacked ==
    \/ pc = "encode_slice" /\ slice >= 1
    \/ pc = "encode_done" /\ result > 0

\* the index in the input of the group just packed
LastGroup == (consumed \div WORDS) - 1

\* the width encode chose for the group just packed, before any padding
WidthChosen ==
    IF pc = "encode_slice" THEN encodings[slice - 1]
    ELSE cumulative_shift - EncodingsSum(encodings, slice)

\* C20 as stated: encode chooses for each group of 16 values (absent positions
\* left out) the width ceil(log2(max(values, 1))), 1 when every value is 0 or 1.
C20_SliceWidthChoice ==
    GroupPacked => WidthChosen = CeilingOfLog2(LargestValue(LastGroup))

\* C20 amended: encode chooses for each group of 16 values (absent positions
\* left out) the width floor(log2(max(values, 1))) + 1, the number of bits of
\* the largest value, which is 1 when every value is 0 or 1.
C20_SliceWidthIsBitLength ==
    GroupPacked => WidthChosen = BitLength(LargestValue(LastGroup))

\* C20 witness: a group whose largest value is 4 has been packed in 3 bits
C20_Witness ==
    /\ GroupPacked
    /\ LargestValue(LastGroup) = {2}
    /\ WidthChosen = 3

----------------------------------------------------------------------------
(* Properties of decode's output *)

\* ceil(count / WORDS)
GroupsOf(count) == (count + WORDS - 1) \div WORDS

\* C21: decoding a stream encode produced from n >= 1 integers writes exactly
\* 16 * ceil(n / 16) integers, 16 per slice in the order of the stream, so no
\* integer is written at an index >= n + 16, and every integer written at an
\* index >= n is 0.
C21_DecoderOutputExtent ==
    /\ pc \in {"decode", "decode_done"} /\ n >= 1 =>
           /\ Len(decoded) = WORDS * Len(widths)
           /\ Len(decoded) <= WORDS * GroupsOf(n)
           /\ Len(decoded) < n + WORDS + 1
           /\ \A i \in (n + 1) .. Len(decoded) : decoded[i] = {}
    /\ pc = "decode_done" /\ n >= 1 => Len(decoded) = WORDS * GroupsOf(n)

\* C21 witness: a stream of two frames decoded, the last group holding 7
\* integers followed by 9 zeros
C21_Witness ==
    /\ pc = "decode_done"
    /\ source = 2 * FRAME_BYTES
    /\ n % WORDS = 7
    /\ Len(decoded) = n + 9
    /\ decoded[n] # {}
    /\ decoded[n + 1] = {}

----------------------------------------------------------------------------
(* Properties of the two passes of quantize *)

\* C22: each postings callback of pass A and of pass B calls
\* compute_idf_component(document_frequency, documents_in_collection) once,
\* before any other call of the ranker, and then, for each posting of the term
\* in array order, compute_tf_component(tf) and right after it
\* compute_score(docid - 1, tf), once each, tf being the term frequency the
\* callback received.
C22_RankerCallOrder ==
    [][next_term' = next_term + 1 =>
          LET df == Len(index_document_ids[next_term])
              made == ranker_calls'
          IN  /\ Len(made) = 1 + 2 * df
              /\ made[1] = [method |-> "compute_idf_component",
                            first |-> df, second |-> Documents]
              /\ \A i \in 1 .. df :
                     /\ made[2 * i] =
                            [method |-> "compute_tf_component",
                             first |-> index_term_frequencies[next_term][i],
                             second |-> 0]
                     /\ made[2 * i + 1] =
                            [method |-> "compute_score",
                             first |-> index_document_ids[next_term][i] - 1,
                             second |-> index_term_frequencies[next_term][i]]]_vars

\* C22 witness: pass B has made its callback for a first term of two postings
C22_Witness ==
    /\ pass = "B"
    /\ next_term = 2
    /\ Len(ranker_calls) = 5
    /\ ranker_calls[4].method = "compute_tf_component"
    /\ ranker_calls[5].method = "compute_score"
    /\ ranker_calls[5].first = 1

\* the impacts a score may be given, over every outcome of the conversion
ImpactsOf(score) == {Quantized(score, cast) : cast \in UndefinedCasts}

\* C23: for each term pass B calls the writer exactly once, after every entry
\* of term_frequencies has been overwritten with its impact, with the term,
\* document_frequency and document_ids it received, the document ids
\* unmodified; pass B never modifies smallest_rsv or largest_rsv; each
\* primary-key callback of pass B is forwarded to the writer unchanged.
C23_PassBHandOff ==
    [][pass = "B" =>
          /\ smallest_rsv' = smallest_rsv
          /\ largest_rsv' = largest_rsv
          /\ index_document_ids' = index_document_ids
          /\ Len(written') = next_term' - 1
          /\ next_term' = next_term + 1 =>
                 /\ written' = Append(written, written'[Len(written')])
                 /\ written'[next_term].term = next_term
                 /\ written'[next_term].document_frequency =
                        Len(index_document_ids[next_term])
                 /\ written'[next_term].document_ids = index_document_ids[next_term]
                 /\ written'[next_term].term_frequencies =
                        index_term_frequencies'[next_term]
                 /\ \A i \in 1 .. Len(index_document_ids[next_term]) :
                        index_term_frequencies'[next_term][i]
                            \in ImpactsOf(rsv[next_term][i])
                 /\ written_keys' = written_keys
          /\ next_key' = next_key + 1 =>
                 /\ written_keys' = Append(written_keys, next_key)
                 /\ written' = written]_vars

\* C23 witness: pass B is over for an index of two terms; the writer has been
\* handed both terms, the first with an impact in place of its term
\* frequency, and every primary key
C23_Witness ==
    /\ pass = "B"
    /\ IterationOver
    /\ Len(rsv) = 2
    /\ Len(written) = 2
    /\ written[1].term_frequencies[1] = largest_impact
    /\ written[2].document_ids = index_document_ids[2]
    /\ Len(written_keys) = Documents

----------------------------------------------------------------------------
(* Properties of walk_index *)

\* the doc ids of every segment of the index dumped
DocumentsOfSegment == <<1, 3>>

\* C24: walk_index visits the terms in the order of the vocabulary on disk
\* and calls decode_and_process once per segment of a term, in the order
\* 0 .. impacts - 1 of the segments, each call with that segment header's
\* impact and segment_frequency, the payload at header.offset and the length
\* header.end - header.offset; all the postings of a term are printed
\* between the term's name and the newline that ends its line.
C24_WalkOrder ==
    /\ dumper_pc \in {"start", "read", "exited", "fatal"} => decode_calls = <<>>
    /\ dumper_pc \in {"walked", "returned"} =>
           /\ Len(decode_calls) = SegmentsBefore(index_file.terms + 1)
           /\ Written("posting") =
                  Len(DocumentsOfSegment) * SegmentsBefore(index_file.terms + 1)
           /\ \A term \in 1 .. index_file.terms :
                  /\ \A segment \in 0 .. index_file.impacts[term] - 1 :
                         LET call == decode_calls[SegmentsBefore(term) + segment + 1]
                             header == SegmentHeader(term, segment)
                         IN  /\ call.impact = header.impact
                             /\ call.integers = header.segment_frequency
                             /\ call.source = header.offset
                             /\ call.source_length = header.end - header.offset
                  /\ \E name \in 1 .. Len(standard_out) :
                         LET line == Len(DocumentsOfSegment) * index_file.impacts[term]
                         IN  /\ standard_out[name] = [kind |-> "term", term |-> term]
                             /\ name + line + 1 <= Len(standard_out)
                             /\ standard_out[name + line + 1] = [kind |-> "newline"]
                             /\ \A k \in 0 .. line - 1 :
                                    standard_out[name + 1 + k] =
                                        [kind |-> "posting",
                                         document |->
                                             DocumentsOfSegment[
                                                 (k % Len(DocumentsOfSegment)) + 1],
                                         impact |->
                                             index_file.impacts[term]
                                                 - (k \div Len(DocumentsOfSegment))]
                             /\ term > 1 =>
                                    standard_out[name - 1] = [kind |-> "newline"]
                             /\ term > 1 =>
                                    \E earlier \in 1 .. name - 1 :
                                        standard_out[earlier] =
                                            [kind |-> "term", term |-> term - 1]

\* C24 witness: an index of two terms, of two segments and of one, has been
\* walked: three calls, the third for the only segment of the second term
C24_Witness ==
    /\ dumper_pc = "walked"
    /\ index_file.terms = 2
    /\ index_file.impacts = <<2, 1>>
    /\ Len(decode_calls) = 3
    /\ decode_calls[2].impact = 1
    /\ decode_calls[3].source = 2 * SegmentBytes
    /\ Written("posting") = 6

----------------------------------------------------------------------------
(* Properties of encode's use of its buffer *)

\* C25: encode returns non-zero whenever encoded_buffer_length is at least 68
\* bytes times the number of frames the input needs, so that a buffer of
\* exactly the size encode returns is enough; the size returned is then that
\* number of bytes, a positive multiple of 68.
C25_ExactCapacity ==
    /\ pc = "encode_done" /\ encoded_buffer_length >= EncodedSize(array) =>
           result = EncodedSize(array)
    /\ pc = "encode_done" /\ result # 0 =>
           result > 0 /\ result % FRAME_BYTES = 0

----------------------------------------------------------------------------
(* Termination and progress of encode and decode *)

\* the buffer has room for every frame of the input and for the word encode
\* wants free after each
LargeEnough == encoded_buffer_length >= EncodedSize(array) + 4

\* the frames decode has loaded
FramesLoaded == source \div FRAME_BYTES

\* what holds of encode and decode at every step
Progress ==
    /\ pc = "encode_slice" =>
           /\ consumed % WORDS = 0
           /\ consumed + elements = n
           /\ slice <= WORD_WIDTH
    /\ FrameEmitted => FrameSlices >= 1
    /\ pc \in {"decode", "decode_done"} =>
           /\ source <= source_length
           /\ source % FRAME_BYTES = 0
           /\ \A i \in 1 .. Len(widths) : widths[i] >= 1
           /\ SumOf(widths) <= WORD_WIDTH * FramesLoaded
           /\ selector = {} => SumOf(widths) = WORD_WIDTH * FramesLoaded
           /\ Len(decoded) = WORDS * Len(widths)
           /\ \A i \in 1 .. Len(decoded) : i <= n => decoded[i] = array[i]
    /\ pc = "decode_done" =>
           /\ source = source_length
           /\ Len(widths) = IF n = 0 THEN 1 ELSE GroupsOf(n)
    /\ pc = "encode_done" /\ LargeEnough => result > 0

\* C26: on every input, the empty one included, with a buffer large enough,
\* encode returns and decode of what it wrote returns.  Every frame encode
\* starts holds at least one slice; the groups of 16 are packed in order,
\* none skipped, split or repeated, a group that does not fit going whole
\* into the next frame; decode takes each 68-byte frame once, makes at most
\* 32 passes of its loop per frame and reads no byte at or beyond
\* source + source_length.
C26_Termination ==
    /\ []Progress
    /\ <>(pc = "decode_done" \/ (pc = "encode_done" /\ result = 0))

\* C26 witness: decode has returned from a stream of two frames, the first of
\* 31 groups of 0s and 1s, the second holding the 3-bit group that did not
\* fit the last bit of the first
C26_Witness ==
    /\ pc = "decode_done"
    /\ LargeEnough
    /\ source = 2 * FRAME_BYTES
    /\ Len(widths) = WORD_WIDTH
    /\ widths[WORD_WIDTH - 1] = 2
    /\ widths[WORD_WIDTH] = WORD_WIDTH
    /\ decoded[WORDS * (WORD_WIDTH - 1) + 2] = {0, 2}

====
